---------------------------- MODULE Spec2Model ----------------------------
(***************************************************************************)
(* A model of package envreader (env.go): the generic function             *)
(*                                                                         *)
(*     func ReadEnv[T any](key string, defaultValue T) (T, error)          *)
(*                                                                         *)
(* together with the part of the Go standard library it calls (os.Getenv,  *)
(* strconv.Atoi / ParseInt / ParseBool / ParseFloat, fmt.Errorf with %q,   *)
(* %T and %w).  The environment is the one the process was started with; *)
(* ReadEnv is the only code of the package and it never writes it.         *)
(*                                                                         *)
(* A Go string is a sequence of one-character strings.  Integers are kept  *)
(* as a sign and a sequence of decimal digits, most significant first and  *)
(* without leading zeros, so that the 32- and 64-bit limits of strconv are *)
(* the real ones.  A float64 is named by the decimal number it is the      *)
(* correctly rounded conversion of.                                        *)
(***************************************************************************)
EXTENDS Integers, Sequences, FiniteSets, TLC

(***************************************************************************)
(* Bounds of the model.                                                    *)
(***************************************************************************)
\* Every string over Alphabet of at most MaxLen characters is a raw value.
MaxLen == 2
\* The number of callers of ReadEnv that run concurrently.
NumProcs == 2

(***************************************************************************)
(* Characters and strings.                                                 *)
(***************************************************************************)
DigitChars == <<"0", "1", "2", "3", "4", "5", "6", "7", "8", "9">>

IsDigit(c) == \E i \in 1..10 : DigitChars[i] = c

\* c - '0' for a digit c.
DigitVal(c) == (CHOOSE i \in 1..10 : DigitChars[i] = c) - 1

\* s[i:] of Go, with i counted from 0.
Drop(s, i) == SubSeq(s, i + 1, Len(s))

\* s[:i] of Go.
Take(s, i) == SubSeq(s, 1, i)

\* The 0-based character s[i].
At(s, i) == s[i + 1]

(***************************************************************************)
(* Unsigned integers of any size: sequences of digits 0..9, most           *)
(* significant first, <<0>> for zero, no leading zero otherwise.           *)
(***************************************************************************)
RECURSIVE BigStrip(_)
BigStrip(n) ==
    IF Len(n) > 1 /\ n[1] = 0 THEN BigStrip(Tail(n)) ELSE n

RECURSIVE BigLexLess(_, _)
BigLexLess(a, b) ==
    IF a = <<>> THEN FALSE
    ELSE IF a[1] # b[1] THEN a[1] < b[1]
    ELSE BigLexLess(Tail(a), Tail(b))

\* a < b
BigLess(a, b) ==
    IF Len(a) # Len(b) THEN Len(a) < Len(b) ELSE BigLexLess(a, b)

\* a <= b
BigLeq(a, b) == ~BigLess(b, a)

\* n * 10 + d
BigMulAdd(n, d) == BigStrip(Append(n, d))

\* n / 10 (integer division)
BigDiv10(n) == IF Len(n) = 1 THEN <<0>> ELSE Take(n, Len(n) - 1)

RECURSIVE Reverse(_)
Reverse(s) == IF s = <<>> THEN <<>> ELSE Append(Reverse(Tail(s)), s[1])

\* 1 << k, for the shifts strconv makes at bitSize 32 and 64.
BigPow2(k) ==
    CASE k = 31 -> <<2, 1, 4, 7, 4, 8, 3, 6, 4, 8>>
      [] k = 32 -> <<4, 2, 9, 4, 9, 6, 7, 2, 9, 6>>
      [] k = 63 -> <<9, 2, 2, 3, 3, 7, 2, 0, 3, 6, 8, 5, 4, 7, 7, 5, 8, 0, 8>>
      [] k = 64 -> <<1, 8, 4, 4, 6, 7, 4, 4, 0, 7, 3, 7, 0, 9, 5, 5, 1, 6, 1, 6>>

RECURSIVE BigIncRev(_)
BigIncRev(r) ==
    IF r = <<>> THEN <<1>>
    ELSE IF r[1] = 9 THEN <<0>> \o BigIncRev(Tail(r))
    ELSE <<r[1] + 1>> \o Tail(r)

\* n + 1
BigInc(n) == Reverse(BigIncRev(Reverse(n)))

RECURSIVE BigDecRev(_)
BigDecRev(r) ==
    IF r[1] = 0 THEN <<9>> \o BigDecRev(Tail(r))
    ELSE <<r[1] - 1>> \o Tail(r)

\* n - 1, for n > 0
BigDec(n) == BigStrip(Reverse(BigDecRev(Reverse(n))))

\* A signed integer value: int64(un), negated when neg.  -0 is 0.
IntVal(neg, un) == [neg |-> neg /\ un # <<0>>, mag |-> un]

(***************************************************************************)
(* package strconv: errors.                                                *)
(***************************************************************************)
\* The nil error.
Nil == [kind |-> "nil"]

\* var ErrSyntax = errors.New("invalid syntax")
ErrSyntax == [kind |-> "errorString", s |-> <<"invalid syntax">>]

\* var ErrRange = errors.New("value out of range")
ErrRange == [kind |-> "errorString", s |-> <<"value out of range">>]

\* &NumError{Func: fn, Num: str, Err: ErrSyntax}
syntaxError(fn, str) ==
    [kind |-> "NumError", Func |-> fn, Num |-> str, Err |-> ErrSyntax]

\* &NumError{Func: fn, Num: str, Err: ErrRange}
rangeError(fn, str) ==
    [kind |-> "NumError", Func |-> fn, Num |-> str, Err |-> ErrRange]

(***************************************************************************)
(* package strconv: ParseUint, ParseInt and Atoi, for base 10.             *)
(***************************************************************************)
\* const maxUint64 = 1<<64 - 1
maxUint64 == BigDec(BigPow2(64))

\* The base-10 cutoff of ParseUint: maxUint64/10 + 1.
cutoff10 == BigInc(BigDiv10(maxUint64))

\* maxVal := uint64(1)<<uint(bitSize) - 1
maxValOf(bitSize) == BigDec(BigPow2(bitSize))

RECURSIVE ParseUintLoop(_, _, _, _, _)
(* The loop of ParseUint over the bytes of s from index i, n being the     *)
(* number read so far.  Base 10 is not base 0, so '_' is no digit          *)
(* separator, and a letter is a digit >= base: both are syntax errors.     *)
(* uint64 arithmetic wraps; n1 < n || n1 > maxVal detects exactly the sums *)
(* above maxVal, which is what the comparison on unbounded numbers says.   *)
ParseUintLoop(s, i, n, bitSize, s0) ==
    IF i >= Len(s) THEN [n |-> n, err |-> Nil]
    ELSE LET c == At(s, i)
         IN  IF ~IsDigit(c)
             THEN [n |-> <<0>>, err |-> syntaxError("ParseUint", s0)]
             ELSE IF BigLeq(cutoff10, n)
             THEN [n |-> maxValOf(bitSize), err |-> rangeError("ParseUint", s0)]
             ELSE LET n1 == BigMulAdd(n, DigitVal(c))
                  IN  IF BigLess(maxValOf(bitSize), n1)
                      THEN [n |-> maxValOf(bitSize),
                            err |-> rangeError("ParseUint", s0)]
                      ELSE ParseUintLoop(s, i + 1, n1, bitSize, s0)

\* ParseUint(s, 10, bitSize), bitSize being 32 or 64.
ParseUint(s, bitSize) ==
    IF s = <<>> THEN [n |-> <<0>>, err |-> syntaxError("ParseUint", s)]
    ELSE ParseUintLoop(s, 0, <<0>>, bitSize, s)

\* ParseInt with the positive cutoff tested by > in place of >=: 2^(bitSize-1)
\* is let through.
ParseIntOffByOne(s, bitSize) ==
    IF s = <<>> THEN [val |-> IntVal(FALSE, <<0>>),
                      err |-> syntaxError("ParseInt", s)]
    ELSE LET neg    == s[1] = "-"
             body   == IF s[1] = "+" \/ s[1] = "-" THEN Drop(s, 1) ELSE s
             u      == ParseUint(body, bitSize)
             cutoff == BigPow2(bitSize - 1)
         IN  IF u.err # Nil /\ u.err.Err # ErrRange
             THEN [val |-> IntVal(FALSE, <<0>>),
                   err |-> syntaxError("ParseInt", s)]
             ELSE IF BigLess(cutoff, u.n)
             THEN [val |-> IntVal(neg, IF neg THEN cutoff ELSE BigDec(cutoff)),
                   err |-> rangeError("ParseInt", s)]
             ELSE [val |-> IntVal(neg, u.n), err |-> Nil]

\* ParseInt(s, 10, bitSize): the value and the error.
ParseInt(s, bitSize) ==
    IF s = <<>> THEN [val |-> IntVal(FALSE, <<0>>),
                      err |-> syntaxError("ParseInt", s)]
    ELSE LET neg    == s[1] = "-"
             body   == IF s[1] = "+" \/ s[1] = "-" THEN Drop(s, 1) ELSE s
             u      == ParseUint(body, bitSize)
             cutoff == BigPow2(bitSize - 1)
         IN  IF u.err # Nil /\ u.err.Err # ErrRange
             THEN [val |-> IntVal(FALSE, <<0>>),
                   err |-> syntaxError("ParseInt", s)]
             ELSE IF ~neg /\ BigLeq(cutoff, u.n)
             THEN [val |-> IntVal(FALSE, BigDec(cutoff)),
                   err |-> rangeError("ParseInt", s)]
             ELSE IF neg /\ BigLess(cutoff, u.n)
             THEN [val |-> IntVal(TRUE, cutoff),
                   err |-> rangeError("ParseInt", s)]
             ELSE [val |-> IntVal(neg, u.n), err |-> Nil]

RECURSIVE AtoiFastLoop(_, _, _)
(* The fast path's loop: n = n*10 + int(ch) over the bytes of s from index *)
(* i; <<>> stands for the syntax error return.                             *)
AtoiFastLoop(s, i, n) ==
    IF i >= Len(s) THEN n
    ELSE IF ~IsDigit(At(s, i)) THEN <<>>
    ELSE AtoiFastLoop(s, i + 1, BigMulAdd(n, DigitVal(At(s, i))))

\* Atoi(s) on a platform whose int has intSize bits.
Atoi(s, intSize) ==
    IF    (intSize = 32 /\ 0 < Len(s) /\ Len(s) < 10)
       \/ (intSize = 64 /\ 0 < Len(s) /\ Len(s) < 19)
    THEN LET signed == s[1] = "-" \/ s[1] = "+"
             body   == IF signed THEN Drop(s, 1) ELSE s
             n      == AtoiFastLoop(body, 0, <<0>>)
         IN  IF Len(body) < 1 \/ n = <<>>
             THEN [val |-> IntVal(FALSE, <<0>>), err |-> syntaxError("Atoi", s)]
             ELSE [val |-> IntVal(s[1] = "-", n), err |-> Nil]
    ELSE LET r == ParseInt(s, intSize)
         IN  [val |-> r.val,
              err |-> IF r.err = Nil THEN Nil
                      ELSE [r.err EXCEPT !.Func = "Atoi"]]

(***************************************************************************)
(* package strconv: ParseBool.                                             *)
(***************************************************************************)
\* "true", "false" and the other spellings, as strings of characters.
StrTrue == <<"t", "r", "u", "e">>

StrFalse == <<"f", "a", "l", "s", "e">>

BoolTrueStrings ==
    { <<"1">>, <<"t">>, <<"T">>, StrTrue, <<"T", "R", "U", "E">>,
      <<"T", "r", "u", "e">> }

BoolFalseStrings ==
    { <<"0">>, <<"f">>, <<"F">>, StrFalse, <<"F", "A", "L", "S", "E">>,
      <<"F", "a", "l", "s", "e">> }

\* A bool value.
BoolVal(b) == [b |-> b]

\* ParseBool accepting the two words only.
ParseBoolWordsOnly(str) ==
    IF str = StrTrue THEN [val |-> BoolVal(TRUE), err |-> Nil]
    ELSE IF str = StrFalse THEN [val |-> BoolVal(FALSE), err |-> Nil]
    ELSE [val |-> BoolVal(FALSE), err |-> syntaxError("ParseBool", str)]

ParseBool(str) ==
    IF str \in BoolTrueStrings THEN [val |-> BoolVal(TRUE), err |-> Nil]
    ELSE IF str \in BoolFalseStrings THEN [val |-> BoolVal(FALSE), err |-> Nil]
    ELSE [val |-> BoolVal(FALSE), err |-> syntaxError("ParseBool", str)]

(***************************************************************************)
(* package strconv: ParseFloat(s, 64) on decimal input.  The raw values of *)
(* the model hold no 'x', so the hexadecimal branch of readFloat is never  *)
(* entered and is left out.                                                *)
(*                                                                         *)
(* A finite float64 is named by the decimal it is rounded from: the digits *)
(* mag (no leading or trailing zero, <<>> for zero) times 10^exp.  strconv *)
(* rounds correctly, so two literals of the same decimal give the same     *)
(* float64.                                                                *)
(***************************************************************************)
UpperChars == <<"A", "B", "C", "D", "E", "F", "G", "H", "I", "J", "K", "L",
                "M", "N", "O", "P", "Q", "R", "S", "T", "U", "V", "W", "X",
                "Y", "Z">>

LowerChars == <<"a", "b", "c", "d", "e", "f", "g", "h", "i", "j", "k", "l",
                "m", "n", "o", "p", "q", "r", "s", "t", "u", "v", "w", "x",
                "y", "z">>

\* lower(c): c | ('x' - 'X'), which maps an upper-case letter to lower case.
lower(c) ==
    IF \E i \in 1..26 : UpperChars[i] = c
    THEN LowerChars[CHOOSE i \in 1..26 : UpperChars[i] = c]
    ELSE c

RECURSIVE commonPrefixLenIgnoreCase(_, _)
commonPrefixLenIgnoreCase(s, prefix) ==
    IF s = <<>> \/ prefix = <<>> THEN 0
    ELSE IF lower(s[1]) # prefix[1] THEN 0
    ELSE 1 + commonPrefixLenIgnoreCase(Tail(s), Tail(prefix))

FloatInf(neg) == [kind |-> "inf", neg |-> neg]

FloatNaN == [kind |-> "nan"]

FloatZero(neg) == [kind |-> "fin", neg |-> neg, mag |-> <<>>, exp |-> 0]

\* special(s): the float, the number of bytes consumed, and ok.
special(s) ==
    LET no == [f |-> FloatZero(FALSE), n |-> 0, ok |-> FALSE]
    IN  IF s = <<>> THEN no
        ELSE IF s[1] \in {"+", "-", "i", "I"}
        THEN LET nsign == IF s[1] \in {"+", "-"} THEN 1 ELSE 0
                 n0    == commonPrefixLenIgnoreCase(Drop(s, nsign),
                              <<"i", "n", "f", "i", "n", "i", "t", "y">>)
                 n     == IF 3 < n0 /\ n0 < 8 THEN 3 ELSE n0
             IN  IF n = 3 \/ n = 8
                 THEN [f |-> FloatInf(s[1] = "-"), n |-> nsign + n, ok |-> TRUE]
                 ELSE no
        ELSE IF s[1] \in {"n", "N"}
        THEN IF commonPrefixLenIgnoreCase(s, <<"n", "a", "n">>) = 3
             THEN [f |-> FloatNaN, n |-> 3, ok |-> TRUE]
             ELSE no
        ELSE no

RECURSIVE underscoreOKLoop(_, _, _)
\* saw is "0" after a digit, "_" after an underscore, "!" after another
\* character and "^" at the beginning.
underscoreOKLoop(s, i, saw) ==
    IF i >= Len(s) THEN saw # "_"
    ELSE IF IsDigit(At(s, i)) THEN underscoreOKLoop(s, i + 1, "0")
    ELSE IF At(s, i) = "_"
    THEN saw = "0" /\ underscoreOKLoop(s, i + 1, "_")
    ELSE saw # "_" /\ underscoreOKLoop(s, i + 1, "!")

\* underscoreOK(s): every underscore separates two digits (or follows a base
\* prefix 0b, 0o, 0x, which counts as a digit).
underscoreOK(s) ==
    LET t == IF Len(s) >= 1 /\ s[1] \in {"-", "+"} THEN Drop(s, 1) ELSE s
    IN  IF Len(t) >= 2 /\ t[1] = "0" /\ lower(t[2]) \in {"b", "o", "x"}
        THEN underscoreOKLoop(t, 2, "0")
        ELSE underscoreOKLoop(t, 0, "^")

RECURSIVE readFloatDigits(_, _)
(* The digits loop of readFloat, st holding its locals: the index i, the   *)
(* flags sawdot, sawdigits and underscores, the digit count nd, the        *)
(* position dp of the decimal point and the mantissa.  strconv keeps 19    *)
(* digits and a trunc flag, and then rounds from all the digits; the model *)
(* keeps all the digits.                                                   *)
readFloatDigits(s, st) ==
    IF st.i >= Len(s) THEN st
    ELSE LET c == At(s, st.i)
         IN  IF c = "_"
             THEN readFloatDigits(s, [st EXCEPT !.underscores = TRUE,
                                                !.i = @ + 1])
             ELSE IF c = "."
             THEN IF st.sawdot THEN st
                  ELSE readFloatDigits(s, [st EXCEPT !.sawdot = TRUE,
                                                     !.dp = st.nd,
                                                     !.i = @ + 1])
             ELSE IF IsDigit(c)
             THEN IF c = "0" /\ st.nd = 0
                  THEN readFloatDigits(s, [st EXCEPT !.sawdigits = TRUE,
                                                     !.dp = @ - 1,
                                                     !.i = @ + 1])
                  ELSE readFloatDigits(s,
                           [st EXCEPT !.sawdigits = TRUE,
                                      !.nd = @ + 1,
                                      !.mantissa = BigMulAdd(@, DigitVal(c)),
                                      !.i = @ + 1])
             ELSE st

RECURSIVE readFloatExp(_, _, _)
\* The exponent's digits from index i: the index after them and e.
readFloatExp(s, i, e) ==
    IF i < Len(s) /\ (IsDigit(At(s, i)) \/ At(s, i) = "_")
    THEN IF At(s, i) = "_" THEN readFloatExp(s, i + 1, e)
         ELSE readFloatExp(s, i + 1,
                  IF e < 10000 THEN e * 10 + DigitVal(At(s, i)) ELSE e)
    ELSE [i |-> i, e |-> e]

RECURSIVE HasUnderscore(_, _, _)
\* Whether s[from:to] holds an underscore.
HasUnderscore(s, from, to) ==
    from < to /\ (At(s, from) = "_" \/ HasUnderscore(s, from + 1, to))

\* readFloat(s): mantissa, exp (the power of ten of the mantissa's last
\* digit), neg, the number of bytes consumed i, and ok.
readFloat(s) ==
    LET no(i) == [mantissa |-> <<0>>, exp |-> 0, neg |-> FALSE, i |-> i,
                  ok |-> FALSE]
    IN  IF s = <<>> THEN no(0)
        ELSE
        LET neg == s[1] = "-"
            i0  == IF s[1] \in {"+", "-"} THEN 1 ELSE 0
            st  == readFloatDigits(s,
                       [i |-> i0, sawdot |-> FALSE, sawdigits |-> FALSE,
                        underscores |-> FALSE, nd |-> 0, dp |-> 0,
                        mantissa |-> <<0>>])
            dp0 == IF st.sawdot THEN st.dp ELSE st.nd
            ndMant == IF st.mantissa = <<0>> THEN 0 ELSE Len(st.mantissa)
        IN  IF ~st.sawdigits THEN no(st.i)
            ELSE IF st.i < Len(s) /\ lower(At(s, st.i)) = "e"
            THEN LET i1    == st.i + 1
                     esign == IF i1 < Len(s) /\ At(s, i1) = "-" THEN -1 ELSE 1
                     i2    == IF i1 < Len(s) /\ At(s, i1) \in {"+", "-"}
                              THEN i1 + 1 ELSE i1
                 IN  IF i1 >= Len(s) THEN no(i1)
                     ELSE IF i2 >= Len(s) \/ ~IsDigit(At(s, i2)) THEN no(i2)
                     ELSE LET x  == readFloatExp(s, i2, 0)
                              dp == dp0 + x.e * esign
                          IN  IF    (st.underscores
                                        \/ HasUnderscore(s, i2, x.i))
                                 /\ ~underscoreOK(Take(s, x.i))
                              THEN no(x.i)
                              ELSE [mantissa |-> st.mantissa,
                                    exp |-> IF st.mantissa # <<0>>
                                            THEN dp - ndMant ELSE 0,
                                    neg |-> neg, i |-> x.i, ok |-> TRUE]
            ELSE IF st.underscores /\ ~underscoreOK(Take(s, st.i))
            THEN no(st.i)
            ELSE [mantissa |-> st.mantissa,
                  exp |-> IF st.mantissa # <<0>> THEN dp0 - ndMant ELSE 0,
                  neg |-> neg, i |-> st.i, ok |-> TRUE]

RECURSIVE TrailingZeros(_)
TrailingZeros(m) ==
    IF m # <<>> /\ m[Len(m)] = 0 THEN 1 + TrailingZeros(Take(m, Len(m) - 1))
    ELSE 0

\* Whether the decimal 0.d1 d2 d3 ... of the digits a is above that of b.
RECURSIVE FracGreater(_, _)
FracGreater(a, b) ==
    IF a = <<>> THEN FALSE
    ELSE IF b = <<>> THEN \E k \in 1..Len(a) : a[k] # 0
    ELSE IF a[1] # b[1] THEN a[1] > b[1]
    ELSE FracGreater(Tail(a), Tail(b))

\* The first digits of 2^1024 - 2^970 = 1.7976931348623158079...e308: a
\* decimal at or above it rounds to infinity.  No decimal of at most 19
\* digits lies between these digits and the number itself.
float64OverflowDigits ==
    <<1, 7, 9, 7, 6, 9, 3, 1, 3, 4, 8, 6, 2, 3, 1, 5, 8, 0, 7>>

\* The first digits of 2^-1075 = 2.4703282292062327208...e-324: a decimal at
\* or below it rounds to zero.
float64UnderflowDigits ==
    <<2, 4, 7, 0, 3, 2, 8, 2, 2, 9, 2, 0, 6, 2, 3, 2, 7, 2, 0>>

\* The float64 nearest to (-1)^neg * mantissa * 10^exp, and whether the
\* conversion overflowed.
atof64exact(neg, mantissa, exp) ==
    IF mantissa = <<0>> THEN [f |-> FloatZero(neg), ovf |-> FALSE]
    ELSE LET z   == TrailingZeros(mantissa)
             mag == Take(mantissa, Len(mantissa) - z)
             e   == exp + z
             sci == Len(mag) + e - 1
         IN  IF sci > 308 \/ (sci = 308 /\ FracGreater(mag, float64OverflowDigits))
             THEN [f |-> FloatInf(neg), ovf |-> TRUE]
             ELSE IF sci < -324
                     \/ (sci = -324 /\ ~FracGreater(mag, float64UnderflowDigits))
             THEN [f |-> FloatZero(neg), ovf |-> FALSE]
             ELSE [f |-> [kind |-> "fin", neg |-> neg, mag |-> mag, exp |-> e],
                   ovf |-> FALSE]

\* atof64(s): the float, the number of bytes consumed, the error.
atof64(s) ==
    LET sp == special(s)
    IN  IF sp.ok THEN [f |-> sp.f, n |-> sp.n, err |-> Nil]
        ELSE LET r == readFloat(s)
             IN  IF ~r.ok THEN [f |-> FloatZero(FALSE), n |-> r.i,
                                err |-> syntaxError("ParseFloat", s)]
                 ELSE LET c == atof64exact(r.neg, r.mantissa, r.exp)
                      IN  [f |-> c.f, n |-> r.i,
                           err |-> IF c.ovf THEN rangeError("ParseFloat", s)
                                   ELSE Nil]

\* ParseFloat(s, 64)
ParseFloat(s) ==
    LET r == atof64(s)
    IN  IF r.n # Len(s) /\ (r.err = Nil \/ r.err.Err # ErrSyntax)
        THEN [val |-> FloatZero(FALSE), err |-> syntaxError("ParseFloat", s)]
        ELSE [val |-> r.f, err |-> r.err]

(***************************************************************************)
(* package strconv: Quote, which fmt's %q applies to a string.  A double   *)
(* quote, a backslash and a control character are escaped; a printable     *)
(* character stands for itself.                                            *)
(***************************************************************************)
QuoteChar(c) ==
    CASE c = "\"" -> <<"\\", "\"">>
      [] c = "\\" -> <<"\\", "\\">>
      [] c = "\n" -> <<"\\", "n">>
      [] c = "\t" -> <<"\\", "t">>
      [] OTHER    -> <<c>>

RECURSIVE QuoteBody(_)
QuoteBody(s) ==
    IF s = <<>> THEN <<>> ELSE QuoteChar(s[1]) \o QuoteBody(Tail(s))

Quote(s) == <<"\"">> \o QuoteBody(s) \o <<"\"">>

(***************************************************************************)
(* Errors: their text, a sequence of fixed pieces and characters, and the  *)
(* chain errors.Is walks.                                                  *)
(***************************************************************************)
\* (e *NumError) Error(): "strconv." + Func + ": parsing " + Quote(Num) +
\* ": " + Err.Error()
NumErrorText(e) ==
    <<"strconv.", e.Func, ": parsing ">> \o Quote(e.Num) \o <<": ">> \o e.Err.s

\* err.Error()
ErrorText(err) ==
    CASE err.kind = "errorString" -> err.s
      [] err.kind = "NumError"    -> NumErrorText(err)
      [] err.kind = "wrapError"   -> err.msg

\* The same Errorf with %v in place of %w: the text is the same and the
\* parser's error is not wrapped.
ErrorfConvertNoWrap(envValue, typeName, err) ==
    [kind |-> "errorString",
     s    |-> <<"failed to convert ">> \o Quote(envValue)
                  \o <<" to ", typeName, ": ">> \o ErrorText(err)]

\* fmt.Errorf("failed to convert %q to <typeName>: %w", envValue, err)
ErrorfConvert(envValue, typeName, err) ==
    [kind |-> "wrapError",
     msg  |-> <<"failed to convert ">> \o Quote(envValue)
                  \o <<" to ", typeName, ": ">> \o ErrorText(err),
     err  |-> err]

\* The types ReadEnv is instantiated at: the five of its type switch, and a
\* struct and a slice type as in env_test.go.
SupportedTypes == {"int", "int64", "string", "bool", "float64"}

Types == SupportedTypes \cup {"struct", "slice"}

\* The kind of the type in place of its name.
TypeNameKind(T) == T

\* What fmt's %T prints for a value of each type.
TypeName(T) ==
    CASE T = "struct" -> "struct { Name string }"
      [] T = "slice"  -> "[]int"
      [] OTHER        -> T

\* fmt.Errorf("unsupported type for environment variable conversion: %T",
\*            defaultValue)
ErrorfUnsupported(T) ==
    [kind |-> "errorString",
     s    |-> <<"unsupported type for environment variable conversion: ",
                TypeName(T)>>]

\* err.Unwrap(), Nil when err has no Unwrap method.
Unwrap(err) ==
    CASE err.kind = "wrapError" -> err.err
      [] err.kind = "NumError"  -> err.Err
      [] OTHER                  -> Nil

RECURSIVE ErrorsIs(_, _)
\* errors.Is(err, target)
ErrorsIs(err, target) ==
    IF err = Nil THEN FALSE
    ELSE err = target \/ ErrorsIs(Unwrap(err), target)

(***************************************************************************)
(* ReadEnv.                                                                *)
(***************************************************************************)
\* A string value, a struct{ Name string } value and a []int value.
StringVal(s) == [str |-> s]

StructVal(name) == [Name |-> name]

SliceVal(elems) == [elems |-> elems]

\* var result T: the zero value of T.
ZeroValue(T) ==
    CASE T = "int"     -> IntVal(FALSE, <<0>>)
      [] T = "int64"   -> IntVal(FALSE, <<0>>)
      [] T = "string"  -> StringVal(<<>>)
      [] T = "bool"    -> BoolVal(FALSE)
      [] T = "float64" -> FloatZero(FALSE)
      [] T = "struct"  -> StructVal(<<>>)
      [] T = "slice"   -> SliceVal(<<>>)

\* switch any(result).(type): the case the dynamic type of result selects.
TypeSwitch(T) == IF T \in SupportedTypes THEN T ELSE "default"

\* envValue == "": return defaultValue, nil
ReturnDefault(defaultValue) == [val |-> defaultValue, err |-> Nil]

\* The return of a case that hands back the parser's value with the error.
ReturnParsedKeepsValue(r, typeName, envValue, defaultValue) ==
    [val |-> r.val,
     err |-> IF r.err # Nil THEN ErrorfConvert(envValue, typeName, r.err)
             ELSE Nil]

\* The return of a case of the switch after its parse: the default and the
\* wrapped error when the parse failed, the parsed value otherwise.
ReturnParsed(r, typeName, envValue, defaultValue) ==
    IF r.err # Nil
    THEN [val |-> defaultValue,
          err |-> ErrorfConvert(envValue, typeName, r.err)]
    ELSE [val |-> r.val, err |-> Nil]

RECURSIVE TrimLeft(_)
TrimLeft(s) == IF s # <<>> /\ s[1] = " " THEN TrimLeft(Tail(s)) ELSE s

\* The string case with strings.TrimSpace applied to the value.
ReturnStringTrimmed(envValue) ==
    [val |-> StringVal(Reverse(TrimLeft(Reverse(TrimLeft(envValue))))),
     err |-> Nil]

\* case string: return any(envValue).(T), nil
ReturnString(envValue) == [val |-> StringVal(envValue), err |-> Nil]

\* The last statement: the default and the unsupported-type error.
ReturnUnsupported(T, defaultValue) ==
    [val |-> defaultValue, err |-> ErrorfUnsupported(T)]

\* The body without its test for the empty value.
ReadEnvBodyNoEmptyTest(T, envValue, defaultValue, intSize) ==
    CASE TypeSwitch(T) = "int" ->
           ReturnParsed(Atoi(envValue, intSize), "int", envValue,
                        defaultValue)
      [] TypeSwitch(T) = "int64" ->
           ReturnParsed(ParseInt(envValue, 64), "int64", envValue,
                        defaultValue)
      [] TypeSwitch(T) = "string" -> ReturnString(envValue)
      [] TypeSwitch(T) = "bool" ->
           ReturnParsed(ParseBool(envValue), "bool", envValue,
                        defaultValue)
      [] TypeSwitch(T) = "float64" ->
           ReturnParsed(ParseFloat(envValue), "float64", envValue,
                        defaultValue)
      [] OTHER -> ReturnUnsupported(T, defaultValue)

\* The body of ReadEnv after os.Getenv: what ReadEnv[T] returns for the
\* value envValue of the variable, on a platform whose int has intSize bits.
ReadEnvBody(T, envValue, defaultValue, intSize) ==
    IF envValue = <<>> THEN ReturnDefault(defaultValue)
    ELSE CASE TypeSwitch(T) = "int" ->
                ReturnParsed(Atoi(envValue, intSize), "int", envValue,
                             defaultValue)
           [] TypeSwitch(T) = "int64" ->
                ReturnParsed(ParseInt(envValue, 64), "int64", envValue,
                             defaultValue)
           [] TypeSwitch(T) = "string" -> ReturnString(envValue)
           [] TypeSwitch(T) = "bool" ->
                ReturnParsed(ParseBool(envValue), "bool", envValue,
                             defaultValue)
           [] TypeSwitch(T) = "float64" ->
                ReturnParsed(ParseFloat(envValue), "float64", envValue,
                             defaultValue)
           [] OTHER -> ReturnUnsupported(T, defaultValue)

\* os.Getenv(key) on the environment e: the value, "" when key is unset.
Getenv(e, key) == IF e[key].set THEN e[key].val ELSE <<>>

(***************************************************************************)
(* The inputs of the model.                                                *)
(***************************************************************************)
Keys == {"TEST_KEY", "OTHER_KEY"}

Alphabet == {"0", "1", "-", "+", ".", "e", "_", "t", "a", "\""}

\* Every string over Alphabet of at most n characters.
Strings(n) == UNION {[1..k -> Alphabet] : k \in 0..n}

\* The values env_test.go sets, the limits of int32, int64 and float64, and
\* the spellings strconv treats specially.
Samples ==
    { <<"1", "2", "3">>, <<"-", "5", "0">>, <<"a", "b", "c">>,
      <<"x", "y", "z">>,
      <<"9", "8", "7", "6", "5", "4", "3", "2", "1", "0">>,
      <<"2", "1", "4", "7", "4", "8", "3", "6", "4", "7">>,
      <<"2", "1", "4", "7", "4", "8", "3", "6", "4", "8">>,
      <<"-", "2", "1", "4", "7", "4", "8", "3", "6", "4", "8">>,
      <<"-", "2", "1", "4", "7", "4", "8", "3", "6", "4", "9">>,
      <<"4", "2", "9", "4", "9", "6", "7", "2", "9", "6", "a">>,
      <<"9", "2", "2", "3", "3", "7", "2", "0", "3", "6", "8", "5", "4", "7",
        "7", "5", "8", "0", "7">>,
      <<"9", "2", "2", "3", "3", "7", "2", "0", "3", "6", "8", "5", "4", "7",
        "7", "5", "8", "0", "8">>,
      <<"-", "9", "2", "2", "3", "3", "7", "2", "0", "3", "6", "8", "5", "4",
        "7", "7", "5", "8", "0", "8">>,
      <<"-", "9", "2", "2", "3", "3", "7", "2", "0", "3", "6", "8", "5", "4",
        "7", "7", "5", "8", "0", "9">>,
      <<"1", "8", "4", "4", "6", "7", "4", "4", "0", "7", "3", "7", "0", "9",
        "5", "5", "1", "6", "1", "5", "a">>,
      <<"1", "8", "4", "4", "6", "7", "4", "4", "0", "7", "3", "7", "0", "9",
        "5", "5", "1", "6", "1", "6", "a">>,
      <<"h", "e", "l", "l", "o", "_", "w", "o", "r", "l", "d">>,
      <<" ", "h", "i", " ">>, <<"a", "\\", "b">>,
      StrTrue, StrFalse, <<"T", "R", "U", "E">>, <<"F", "a", "l", "s", "e">>,
      <<"T">>, <<"f">>, <<"F">>, <<"y", "e", "s">>,
      <<"n", "o", "t", "_", "a", "_", "b", "o", "o", "l">>,
      <<"3", ".", "1", "4">>, <<"-", ".", "5", "e", "-", "1">>,
      <<"1", "_", "0", "0", "0">>, <<"1", "e", "9", "9", "9">>,
      <<"1", "e", "-", "4", "0", "0">>, <<"N", "a", "N">>,
      <<"-", "I", "n", "f">>, <<"i", "n", "f", "i">>,
      <<"n", "o", "t", "_", "a", "_", "f", "l", "o", "a", "t">>,
      <<"{", "}">>, <<"1", ",", "2", ",", "3">> }

\* The strings a variable is set to.
RawValues == Strings(MaxLen) \cup Samples

\* The strings the second variable is set to.
OtherValues == { <<"7">> }

\* A variable of the environment: unset, or set to a string.
Unset == [set |-> FALSE, val |-> <<>>]

SetTo(v) == [set |-> TRUE, val |-> v]

\* The environments a process is started with.
Environments ==
    { [k \in Keys |-> IF k = "TEST_KEY" THEN a ELSE b] :
        a \in {Unset} \cup {SetTo(v) : v \in RawValues},
        b \in {Unset} \cup {SetTo(v) : v \in OtherValues} }

\* The environments of the concurrent callers: the variable unset, empty,
\* a number and not a number.
ConcEnvironments ==
    { [k \in Keys |-> IF k = "TEST_KEY" THEN a ELSE b] :
        a \in {Unset, SetTo(<<>>), SetTo(<<"1", "2", "3">>),
               SetTo(<<"a", "b", "c">>)},
        b \in {Unset} \cup {SetTo(v) : v \in OtherValues} }

\* The default values ReadEnv is called with, per type: the zero value of
\* the type and another value.
Defaults(T) ==
    CASE T = "int"     -> {ZeroValue(T), IntVal(FALSE, <<4, 5, 6>>)}
      [] T = "int64"   -> {ZeroValue(T), IntVal(TRUE, <<1, 2, 3, 4, 5>>)}
      [] T = "string"  -> {ZeroValue(T),
                           StringVal(<<"f", "a", "l", "l", "b", "a", "c", "k">>)}
      [] T = "bool"    -> {BoolVal(FALSE), BoolVal(TRUE)}
      [] T = "float64" -> {ZeroValue(T),
                           [kind |-> "fin", neg |-> FALSE, mag |-> <<5, 5>>,
                            exp |-> -1]}
      [] T = "struct"  -> {ZeroValue(T),
                           StructVal(<<"d", "e", "f", "a", "u", "l", "t">>)}
      [] T = "slice"   -> {ZeroValue(T), SliceVal(<<10, 20>>)}

\* The widths of int on the platforms Go builds for.
IntSizes == {32, 64}

\* The callers of ReadEnv.
Procs == 1..NumProcs

(***************************************************************************)
(* The state.                                                              *)
(***************************************************************************)
VARIABLES
    env,       \* the environment of the process: key -> Unset or SetTo(v)
    intSize,   \* strconv.IntSize, the width of int on this platform
    pc,        \* per caller: "idle", "start", "got" or "done"
    args,      \* per caller: the T, key and defaultValue of its call
    envValue,  \* per caller: the local envValue of its call
    ret,       \* per caller: what its call returned
    reads,     \* per caller: the keys its call has read from the environment
    prev       \* per caller: what the same call returned just before

vars == <<env, intSize, pc, args, envValue, ret, reads, prev>>

\* No value: the placeholder where no call is in progress.
NoValue == [none |-> TRUE]

NoArgs == [T |-> "none", key |-> "none", d |-> NoValue]

NoRet == [val |-> NoValue, err |-> Nil]

NoPrev == [some |-> FALSE, ret |-> NoRet]

TypeOK ==
    /\ env \in Environments
    /\ intSize \in IntSizes
    /\ pc \in [Procs -> {"idle", "start", "got", "done"}]
    /\ \A p \in Procs :
          /\ pc[p] = "idle" <=> args[p] = NoArgs
          /\ pc[p] # "idle" => /\ args[p].T \in Types
                               /\ args[p].key \in Keys
                               /\ args[p].d \in Defaults(args[p].T)
          /\ prev[p].some \in BOOLEAN

\* No call is in progress.
InitCalls ==
    /\ pc = [p \in Procs |-> "idle"]
    /\ args = [p \in Procs |-> NoArgs]
    /\ envValue = [p \in Procs |-> <<>>]
    /\ ret = [p \in Procs |-> NoRet]
    /\ reads = [p \in Procs |-> <<>>]
    /\ prev = [p \in Procs |-> NoPrev]

\* The process starts in some environment, on some platform.
Init ==
    /\ env \in Environments
    /\ intSize \in IntSizes
    /\ InitCalls

(***************************************************************************)
(* ReadEnv[T](key, defaultValue), in the steps another caller can come     *)
(* between: the call, the read of the environment, the rest of the body.   *)
(***************************************************************************)
\* Caller p calls ReadEnv[T](key, d).
Call(p, T, key, d) ==
    /\ pc[p] = "idle"
    /\ pc' = [pc EXCEPT ![p] = "start"]
    /\ args' = [args EXCEPT ![p] = [T |-> T, key |-> key, d |-> d]]
    /\ UNCHANGED <<env, intSize, envValue, ret, reads, prev>>

\* A lookup that reads the variable twice (os.LookupEnv, then os.Getenv).
LookupTwice(p) ==
    /\ pc[p] = "start"
    /\ envValue' = [envValue EXCEPT ![p] = Getenv(env, args[p].key)]
    /\ reads' = [reads EXCEPT ![p] = @ \o <<args[p].key, args[p].key>>]
    /\ pc' = [pc EXCEPT ![p] = "got"]
    /\ UNCHANGED <<env, intSize, args, ret, prev>>

\* A lookup that consumes the variable: it unsets it after reading it.
LookupConsumes(p) ==
    /\ pc[p] = "start"
    /\ envValue' = [envValue EXCEPT ![p] = Getenv(env, args[p].key)]
    /\ reads' = [reads EXCEPT ![p] = Append(@, args[p].key)]
    /\ pc' = [pc EXCEPT ![p] = "got"]
    /\ env' = [env EXCEPT ![args[p].key] = Unset]
    /\ UNCHANGED <<intSize, args, ret, prev>>

\* A lookup into a package-level variable that all the calls share.
LookupShared(p) ==
    /\ pc[p] = "start"
    /\ envValue' = [q \in Procs |-> Getenv(env, args[p].key)]
    /\ reads' = [reads EXCEPT ![p] = Append(@, args[p].key)]
    /\ pc' = [pc EXCEPT ![p] = "got"]
    /\ UNCHANGED <<env, intSize, args, ret, prev>>

\* envValue := os.Getenv(key)
Lookup(p) ==
    /\ pc[p] = "start"
    /\ envValue' = [envValue EXCEPT ![p] = Getenv(env, args[p].key)]
    /\ reads' = [reads EXCEPT ![p] = Append(@, args[p].key)]
    /\ pc' = [pc EXCEPT ![p] = "got"]
    /\ UNCHANGED <<env, intSize, args, ret, prev>>

\* The control of the rest of the body: it runs once the environment is
\* read, waits for nothing, and ends in a return.
SwitchControl(p) ==
    /\ pc[p] = "got"
    /\ pc' = [pc EXCEPT ![p] = "done"]

\* The empty-value test, the type switch and the return.
Switch(p) ==
    /\ SwitchControl(p)
    /\ ret' = [ret EXCEPT ![p] =
                  ReadEnvBody(args[p].T, envValue[p], args[p].d, intSize)]
    /\ UNCHANGED <<env, intSize, args, envValue, reads, prev>>

\* The call has returned and the caller has used the result.
Return(p) ==
    /\ pc[p] = "done"
    /\ pc' = [pc EXCEPT ![p] = "idle"]
    /\ args' = [args EXCEPT ![p] = NoArgs]
    /\ envValue' = [envValue EXCEPT ![p] = <<>>]
    /\ ret' = [ret EXCEPT ![p] = NoRet]
    /\ reads' = [reads EXCEPT ![p] = <<>>]
    /\ prev' = [prev EXCEPT ![p] = NoPrev]
    /\ UNCHANGED <<env, intSize>>

\* The caller makes the same call again, keeping the first result to compare.
Again(p) ==
    /\ pc[p] = "done"
    /\ ~prev[p].some
    /\ prev' = [prev EXCEPT ![p] = [some |-> TRUE, ret |-> ret[p]]]
    /\ pc' = [pc EXCEPT ![p] = "start"]
    /\ envValue' = [envValue EXCEPT ![p] = <<>>]
    /\ ret' = [ret EXCEPT ![p] = NoRet]
    /\ reads' = [reads EXCEPT ![p] = <<>>]
    /\ UNCHANGED <<env, intSize, args>>

(***************************************************************************)
(* Spec: one caller, which makes call after call.                          *)
(***************************************************************************)
Next ==
    \/ \E T \in Types : \E key \in Keys : \E d \in Defaults(T) :
          Call(1, T, key, d)
    \/ Lookup(1)
    \/ Switch(1)
    \/ Return(1)
    \/ Again(1)

Spec == Init /\ [][Next]_vars

(***************************************************************************)
(* SpecC: NumProcs callers whose steps interleave in any order, with no    *)
(* coordination, in an environment nobody writes.                          *)
(***************************************************************************)
\* The default value the concurrent callers pass: the one that is not the
\* zero value.
ConcDefault(T) == CHOOSE d \in Defaults(T) : d # ZeroValue(T)

InitC ==
    /\ env \in ConcEnvironments
    /\ intSize \in IntSizes
    /\ InitCalls

NextC ==
    \E p \in Procs :
        \/ \E T \in Types : \E key \in Keys : Call(p, T, key, ConcDefault(T))
        \/ Lookup(p)
        \/ Switch(p)
        \/ Return(p)

SpecC == InitC /\ [][NextC]_vars

(***************************************************************************)
(* What the properties below speak of: the calls that have returned, the   *)
(* value the environment holds for a call's key, and the literals of each  *)
(* type with the values they denote, defined from their grammar and not    *)
(* from strconv's loops.                                                   *)
(***************************************************************************)
\* Caller p's call has returned.
Done(p) == pc[p] = "done"

\* The raw value of the variable caller p's call names: "" when unset.
RawOf(p) == IF env[args[p].key].set THEN env[args[p].key].val ELSE <<>>

\* The width in bits of the integer type T.
BitsOf(T) == IF T = "int64" THEN 64 ELSE intSize

\* s without its leading sign, if any.
Unsigned(s) == IF s # <<>> /\ s[1] \in {"+", "-"} THEN Tail(s) ELSE s

AllDigits(s) == \A i \in 1..Len(s) : IsDigit(s[i])

\* The number a string of digits denotes.
NumberOf(s) == BigStrip([i \in 1..Len(s) |-> DigitVal(s[i])])

\* A base-10 signed integer: an optional sign and one digit or more.
IsIntegerLiteral(s) == Unsigned(s) # <<>> /\ AllDigits(Unsigned(s))

IntegerLiteralValue(s) == IntVal(s[1] = "-", NumberOf(Unsigned(s)))

\* -2^(bits-1) <= v <= 2^(bits-1) - 1
InSignedRange(v, bits) ==
    IF v.neg THEN BigLeq(v.mag, BigPow2(bits - 1))
    ELSE BigLess(v.mag, BigPow2(bits - 1))

\* Some leading run of digits of s, after its sign, is a number above
\* 2^bits - 1.
DigitPrefixOverflows(s, bits) ==
    \E k \in 1..Len(Unsigned(s)) :
        /\ AllDigits(Take(Unsigned(s), k))
        /\ BigLess(BigDec(BigPow2(bits)), NumberOf(Take(Unsigned(s), k)))

\* The boolean literals strconv documents.
BoolLiterals ==
    { <<"1">>, <<"t">>, <<"T">>, <<"T", "R", "U", "E">>,
      <<"t", "r", "u", "e">>, <<"T", "r", "u", "e">>,
      <<"0">>, <<"f">>, <<"F">>, <<"F", "A", "L", "S", "E">>,
      <<"f", "a", "l", "s", "e">>, <<"F", "a", "l", "s", "e">> }

\* The position of the first 'e' or 'E' of s, 0 when there is none.
ExpMark(s) ==
    IF \E i \in 1..Len(s) : lower(s[i]) = "e"
    THEN CHOOSE i \in 1..Len(s) :
             lower(s[i]) = "e" /\ \A j \in 1..(i - 1) : lower(s[j]) # "e"
    ELSE 0

\* The mantissa part and the exponent part of an unsigned decimal float.
MantissaPart(u) == IF ExpMark(u) = 0 THEN u ELSE Take(u, ExpMark(u) - 1)

ExponentPart(u) == IF ExpMark(u) = 0 THEN <<>> ELSE Drop(u, ExpMark(u))

\* s without its '.' characters.
RECURSIVE WithoutDots(_)
WithoutDots(s) ==
    IF s = <<>> THEN <<>>
    ELSE IF s[1] = "." THEN WithoutDots(Tail(s))
    ELSE <<s[1]>> \o WithoutDots(Tail(s))

\* The number of characters after the '.' of m, 0 when it has none.
FractionLen(m) ==
    IF \E i \in 1..Len(m) : m[i] = "."
    THEN Len(m) - (CHOOSE i \in 1..Len(m) : m[i] = ".")
    ELSE 0

\* A decimal floating-point literal: an optional sign, digits with at most
\* one '.', and an optional exponent e or E with an optional sign and digits.
IsDecimalFloat(s) ==
    LET m == MantissaPart(Unsigned(s))
        x == ExponentPart(Unsigned(s))
    IN  /\ Cardinality({i \in 1..Len(m) : m[i] = "."}) <= 1
        /\ WithoutDots(m) # <<>>
        /\ AllDigits(WithoutDots(m))
        /\ ExpMark(Unsigned(s)) # 0 => IsIntegerLiteral(x)

\* The (small) number a string of digits denotes, as an integer.
RECURSIVE SmallNumber(_)
SmallNumber(s) ==
    IF s = <<>> THEN 0
    ELSE 10 * SmallNumber(Take(s, Len(s) - 1)) + DigitVal(s[Len(s)])

\* The float64 nearest to the decimal the literal s denotes, and whether the
\* decimal is beyond the range of float64.
DecimalFloatValue(s) ==
    LET m == MantissaPart(Unsigned(s))
        x == ExponentPart(Unsigned(s))
        e == IF x = <<>> THEN 0
             ELSE (IF x[1] = "-" THEN -1 ELSE 1) * SmallNumber(Unsigned(x))
    IN  atof64exact(s[1] = "-", NumberOf(WithoutDots(m)), e - FractionLen(m))

\* Every '_' of s stands between two digits.
UnderscoresSeparateDigits(s) ==
    \A i \in 1..Len(s) :
        s[i] = "_" => /\ 1 < i /\ i < Len(s)
                      /\ IsDigit(s[i - 1]) /\ IsDigit(s[i + 1])

RECURSIVE WithoutUnderscores(_)
WithoutUnderscores(s) ==
    IF s = <<>> THEN <<>>
    ELSE IF s[1] = "_" THEN WithoutUnderscores(Tail(s))
    ELSE <<s[1]>> \o WithoutUnderscores(Tail(s))

LowerString(s) == [i \in 1..Len(s) |-> lower(s[i])]

\* What strconv documents ParseFloat to accept (hexadecimal apart): a
\* decimal float whose digits '_' may separate, "inf" and "infinity" with an
\* optional sign, and "nan", in any case.
IsFloatSyntax(s) ==
    \/ UnderscoresSeparateDigits(s) /\ IsDecimalFloat(WithoutUnderscores(s))
    \/ LowerString(Unsigned(s)) \in { <<"i", "n", "f">>,
                                      <<"i", "n", "f", "i", "n", "i", "t", "y">> }
    \/ LowerString(s) = <<"n", "a", "n">>

\* The types whose case of the switch parses the raw value.
ParsedTypes == {"int", "int64", "bool", "float64"}

\* s is, syntactically, a literal of the type T.
WellFormed(T, s) ==
    CASE T \in {"int", "int64"} -> IsIntegerLiteral(s)
      [] T = "bool"             -> s \in BoolLiterals
      [] T = "float64"          -> IsFloatSyntax(s)

\* s with a backslash before each double quote and each backslash.
RECURSIVE Escaped(_)
Escaped(s) ==
    IF s = <<>> THEN <<>>
    ELSE (IF s[1] \in {"\"", "\\"} THEN <<"\\", s[1]>> ELSE <<s[1]>>)
             \o Escaped(Tail(s))

\* The text `failed to convert "<q>" to <type>: <cause>`.
ConvertText(q, type, cause) ==
    <<"failed to convert ", "\"">> \o q \o <<"\"", " to ", type, ": ">> \o cause

(***************************************************************************)
(* C1.  For every supported type T, key and default d: when the variable   *)
(* is not set, or is set to the empty string, ReadEnv[T](key, d) returns   *)
(* exactly (d, nil); the two cases give the same result.                   *)
(***************************************************************************)
C1_UnsetOrEmptyReturnsDefault ==
    \A p \in Procs :
        (/\ Done(p)
         /\ args[p].T \in SupportedTypes
         /\ env[args[p].key] \in {Unset, SetTo(<<>>)})
        => ret[p] = [val |-> args[p].d, err |-> Nil]

\* A call for a supported type has returned and its variable is set to the
\* empty string.
C1_Witness ==
    \E p \in Procs :
        /\ Done(p)
        /\ args[p].T \in SupportedTypes
        /\ env[args[p].key] = SetTo(<<>>)
        /\ args[p].d # ZeroValue(args[p].T)

(***************************************************************************)
(* C2.  The unsupported-type error.                                        *)
(***************************************************************************)
\* What %T prints for the two unsupported types of env_test.go.
UnsupportedTypeName(T) ==
    IF T = "struct" THEN "struct { Name string }" ELSE "[]int"

UnsupportedResult(T, d) ==
    [val |-> d,
     err |-> [kind |-> "errorString",
              s |-> <<"unsupported type for environment variable conversion: ",
                      UnsupportedTypeName(T)>>]]

\* C2 as claimed: for an unsupported type T and any value the variable is set
\* to, the empty string included, ReadEnv[T](key, d) returns d and the error
\* `unsupported type for environment variable conversion: <type of d>`.
C2_Original ==
    \A p \in Procs :
        (Done(p) /\ args[p].T \notin SupportedTypes /\ env[args[p].key].set)
        => ret[p] = UnsupportedResult(args[p].T, args[p].d)

\* C2 as amended: for an unsupported type T and any non-empty value of the
\* variable, ReadEnv[T](key, d) returns d and the error `unsupported type for
\* environment variable conversion: <type of d>`, whatever the value is; when
\* the variable is unset or empty it returns (d, nil), as for every type.
C2_UnsupportedType ==
    \A p \in Procs :
        (Done(p) /\ args[p].T \notin SupportedTypes)
        => ret[p] = IF RawOf(p) # <<>>
                    THEN UnsupportedResult(args[p].T, args[p].d)
                    ELSE [val |-> args[p].d, err |-> Nil]

\* A call for the slice type has returned and its variable holds "1,2,3".
C2_Witness ==
    \E p \in Procs :
        /\ Done(p)
        /\ args[p].T = "slice"
        /\ RawOf(p) = <<"1", ",", "2", ",", "3">>
        /\ ret[p].err # Nil

(***************************************************************************)
(* C3.  The conversion error.                                              *)
(***************************************************************************)
\* Caller p's call parses a non-empty raw value that is no literal of its type.
Malformed(p) ==
    /\ Done(p)
    /\ args[p].T \in ParsedTypes
    /\ RawOf(p) # <<>>
    /\ ~WellFormed(args[p].T, RawOf(p))

\* C3 as claimed: for T in {int, int64, bool, float64} and a non-empty raw
\* value that is not a well-formed literal of T, ReadEnv returns (d, err), err
\* is not nil, errors.Is(err, strconv.ErrSyntax) holds, and err's text is
\* `failed to convert "<raw>" to <T>: <cause>`.
C3_Original ==
    \A p \in Procs :
        Malformed(p)
        => /\ ret[p].val = args[p].d
           /\ ret[p].err # Nil
           /\ ErrorsIs(ret[p].err, ErrSyntax)
           /\ ErrorText(ret[p].err) =
                  ConvertText(RawOf(p), args[p].T,
                              ErrorText(Unwrap(ret[p].err)))

\* C3 as amended: in that case ReadEnv returns (d, err), err is not nil and
\* wraps the parser's error for the raw value; errors.Is(err, ErrSyntax)
\* holds, except that for int and int64 a raw value whose leading digits,
\* after its sign, already exceed the unsigned range of the width gives
\* ErrRange and not ErrSyntax; err's text is
\* `failed to convert "<q>" to <T>: <cause>`, <q> being the raw value with
\* each double quote and backslash escaped by a backslash.
C3_ConversionError ==
    \A p \in Procs :
        Malformed(p)
        => /\ ret[p].val = args[p].d
           /\ ret[p].err # Nil
           /\ Unwrap(ret[p].err) # Nil
           /\ Unwrap(ret[p].err).Num = RawOf(p)
           /\ IF /\ args[p].T \in {"int", "int64"}
                 /\ DigitPrefixOverflows(RawOf(p), BitsOf(args[p].T))
              THEN /\ ErrorsIs(ret[p].err, ErrRange)
                   /\ ~ErrorsIs(ret[p].err, ErrSyntax)
              ELSE /\ ErrorsIs(ret[p].err, ErrSyntax)
                   /\ ~ErrorsIs(ret[p].err, ErrRange)
           /\ ErrorText(ret[p].err) =
                  ConvertText(Escaped(RawOf(p)), args[p].T,
                              ErrorText(Unwrap(ret[p].err)))

\* A call for bool has returned with a syntax error for a value holding a
\* double quote.
C3_Witness ==
    \E p \in Procs :
        /\ Malformed(p)
        /\ args[p].T = "bool"
        /\ \E i \in 1..Len(RawOf(p)) : RawOf(p)[i] = "\""
        /\ ErrorsIs(ret[p].err, ErrSyntax)

(***************************************************************************)
(* C4.  For every type, key, default d and environment, the value ReadEnv  *)
(* returns is the successfully parsed raw value or exactly d; whenever the *)
(* error is not nil the value is d; the zero value of T is returned only   *)
(* when it is d or the parsed value.                                       *)
(***************************************************************************)
\* What the parser of T makes of s: its value and its error.
ParserResult(T, s) ==
    CASE T = "int"     -> Atoi(s, intSize)
      [] T = "int64"   -> ParseInt(s, 64)
      [] T = "bool"    -> ParseBool(s)
      [] T = "float64" -> ParseFloat(s)
      [] T = "string"  -> [val |-> StringVal(s), err |-> Nil]

C4_ValueIsParsedOrDefault ==
    \A p \in Procs :
        Done(p)
        => /\ ret[p].err # Nil => ret[p].val = args[p].d
           /\ \/ ret[p].val = args[p].d
              \/ /\ args[p].T \in SupportedTypes
                 /\ RawOf(p) # <<>>
                 /\ ParserResult(args[p].T, RawOf(p)).err = Nil
                 /\ ret[p].val = ParserResult(args[p].T, RawOf(p)).val

\* A call for int64 has returned an error and a default that is not the zero
\* value, where the parser's own value (the clamped one) is not zero either.
C4_Witness ==
    \E p \in Procs :
        /\ Done(p)
        /\ ret[p].err # Nil
        /\ args[p].T = "int64"
        /\ args[p].d # ZeroValue("int64")
        /\ ParserResult("int64", RawOf(p)).val # ZeroValue("int64")

(***************************************************************************)
(* C5.  For T in {int, int64, bool, float64} and a non-empty raw value     *)
(* that is a well-formed literal of T (a base-10 signed integer within the *)
(* range of T; "true", "false", "1", "0", "t", "f"; a decimal float within *)
(* the range of float64), ReadEnv[T](key, d) returns (v, nil), v being the *)
(* quantity the literal denotes, whatever d is.                            *)
(***************************************************************************)
\* The literals of C5 and what each denotes.
IsLiteralInRange(T, s) ==
    CASE T \in {"int", "int64"} ->
            /\ IsIntegerLiteral(s)
            /\ InSignedRange(IntegerLiteralValue(s), BitsOf(T))
      [] T = "bool" ->
            s \in { StrTrue, StrFalse, <<"1">>, <<"0">>, <<"t">>, <<"f">> }
      [] T = "float64" ->
            IsDecimalFloat(s) /\ ~DecimalFloatValue(s).ovf

Denoted(T, s) ==
    CASE T \in {"int", "int64"} -> IntegerLiteralValue(s)
      [] T = "bool"    -> BoolVal(s \in { StrTrue, <<"1">>, <<"t">> })
      [] T = "float64" -> DecimalFloatValue(s).f

C5_WellFormedParses ==
    \A p \in Procs :
        (/\ Done(p)
         /\ args[p].T \in ParsedTypes
         /\ IsLiteralInRange(args[p].T, RawOf(p)))
        => ret[p] = [val |-> Denoted(args[p].T, RawOf(p)), err |-> Nil]

\* A call for float64 has returned 3.14 for "3.14", with another default.
C5_Witness ==
    \E p \in Procs :
        /\ Done(p)
        /\ args[p].T = "float64"
        /\ RawOf(p) = <<"3", ".", "1", "4">>
        /\ ret[p].val = [kind |-> "fin", neg |-> FALSE, mag |-> <<3, 1, 4>>,
                         exp |-> -2]
        /\ ret[p].val # args[p].d

(***************************************************************************)
(* C6.  For T = string and every non-empty raw value r, ReadEnv returns    *)
(* (r, nil), r unchanged, whatever d is; ReadEnv[string] never returns an  *)
(* error.                                                                  *)
(***************************************************************************)
C6_StringUnchanged ==
    \A p \in Procs :
        (Done(p) /\ args[p].T = "string")
        => /\ ret[p].err = Nil
           /\ RawOf(p) # <<>> => ret[p].val = StringVal(RawOf(p))

\* A call for string has returned a value with spaces around it.
C6_Witness ==
    \E p \in Procs :
        /\ Done(p)
        /\ args[p].T = "string"
        /\ RawOf(p) = <<" ", "h", "i", " ">>
        /\ ret[p].val # args[p].d

(***************************************************************************)
(* C7.  Two consecutive calls ReadEnv[T](key, d) with the same arguments,  *)
(* in the same environment, return the same value and the same error.      *)
(***************************************************************************)
C7_SameCallSameResult ==
    \A p \in Procs : (Done(p) /\ prev[p].some) => ret[p] = prev[p].ret

\* The second of two equal calls has returned, with an error.
C7_Witness ==
    \E p \in Procs : Done(p) /\ prev[p].some /\ ret[p].err # Nil

(***************************************************************************)
(* C8.  On every path a call of ReadEnv reads the environment exactly      *)
(* once, for the given key only, and leaves the whole environment          *)
(* unchanged.                                                              *)
(***************************************************************************)
C8_OneReadNoWrite ==
    [][/\ env' = env
       /\ \A p \in Procs : pc'[p] = "done" => reads'[p] = <<args'[p].key>>
       /\ \A p \in Procs : Len(reads'[p]) <= 1]_vars

\* A call for an unsupported type has returned after its one read.
C8_Witness ==
    \E p \in Procs :
        /\ Done(p)
        /\ reads[p] = <<args[p].key>>
        /\ args[p].T = "struct"
        /\ ret[p].err # Nil
        /\ \E k \in Keys : k # args[p].key /\ env[k].set

(***************************************************************************)
(* C9.  Any number of calls running concurrently, their steps interleaved  *)
(* in any order and with no coordination, in an environment nobody writes, *)
(* each return what the same call returns when run alone; every call can   *)
(* always take its next step, whatever the others do, and so completes;    *)
(* no call sees or changes what belongs to another.  (The step after the   *)
(* read is enabled when its control is: the rest of it only assigns.)      *)
(***************************************************************************)
\* What the call ReadEnv[T](key, d) returns when run alone in environment e.
Alone(e, T, key, d) == ReadEnvBody(T, Getenv(e, key), d, intSize)

C9_ConcurrentCallsIndependent ==
    \A p \in Procs :
        /\ pc[p] = "start" => ENABLED Lookup(p)
        /\ pc[p] = "got" => /\ ENABLED SwitchControl(p)
                            /\ envValue[p] = RawOf(p)
        /\ Done(p) => ret[p] = Alone(env, args[p].T, args[p].key, args[p].d)

\* Two calls for different keys, whose variables hold different values, have
\* both returned, one with an error and one without.
C9_Witness ==
    \E p, q \in Procs :
        /\ p # q
        /\ Done(p) /\ Done(q)
        /\ args[p].key # args[q].key
        /\ ret[p].err # Nil
        /\ ret[q].err = Nil
        /\ RawOf(p) # RawOf(q)

(***************************************************************************)
(* C10.  For T = int64, and T = int at the platform's width, a raw value   *)
(* that is a base-10 integer outside the signed range of T gives (d, err)  *)
(* whose cause is the range error and not the syntax error; the value is   *)
(* never wrapped around or clamped; 2^63-1 and -2^63 parse.                *)
(***************************************************************************)
C10_OutOfRange ==
    \A p \in Procs :
        (/\ Done(p)
         /\ args[p].T \in {"int", "int64"}
         /\ IsIntegerLiteral(RawOf(p)))
        => IF InSignedRange(IntegerLiteralValue(RawOf(p)), BitsOf(args[p].T))
           THEN ret[p] = [val |-> IntegerLiteralValue(RawOf(p)), err |-> Nil]
           ELSE /\ ret[p].val = args[p].d
                /\ ret[p].err # Nil
                /\ ErrorsIs(ret[p].err, ErrRange)
                /\ ~ErrorsIs(ret[p].err, ErrSyntax)

\* A call for int64 has returned the range error for 2^63.
C10_Witness ==
    \E p \in Procs :
        /\ Done(p)
        /\ args[p].T = "int64"
        /\ IsIntegerLiteral(RawOf(p))
        /\ IntegerLiteralValue(RawOf(p)) = IntVal(FALSE, BigPow2(63))
        /\ ErrorsIs(ret[p].err, ErrRange)
        /\ ret[p].val = args[p].d

=============================================================================
